---------------------------- MODULE Spec2Model ----------------------------
(***************************************************************************)
(* Model of src/src/App.jsx: the Comparative Yield -> Production app.      *)
(*                                                                         *)
(* JavaScript strings are sequences of one-character strings, JavaScript   *)
(* numbers are exact rationals [t |-> "number", n, d] (d > 0, lowest       *)
(* terms) or NaN; binary floating-point rounding error is not modelled.    *)
(***************************************************************************)
EXTENDS Integers, Sequences, FiniteSets, TLC

VARIABLES
    cyRows,      \* useState: processed Comparative Yield rows
    prodRows,    \* useState: production calibration rows
    status,      \* useState: the status line
    calls,       \* invocations of the async upload handlers, running or settled
    files,       \* workbooks handed to XLSX.writeFile, oldest first
    alerts,      \* messages shown with alert(), oldest first
    fn,          \* pure-function harness: the function(s) applied so far
    args,        \* pure-function harness: the arguments of the call
    ret          \* pure-function harness: the values returned, oldest first

vars == <<cyRows, prodRows, status, calls, files, alerts, fn, args, ret>>

appVars == <<cyRows, prodRows, status, calls, files, alerts>>

(***************************************************************************)
(* Bounds of the model.                                                    *)
(***************************************************************************)
MaxScaled == 26        \* |numerator| of the values handed to round
MaxDigits == 2         \* digits argument of round ranges over 0..MaxDigits
MaxCalRows == 3        \* rows of a calibration collection handed to computeSlopesByKA
MaxYieldRows == 2      \* rows of a yield collection handed to the row builders
MaxJoinCalRows == 1    \* rows of the calibration collection joined with it
MaxCalls == 2          \* upload batches started in one session
MaxExports == 2        \* export requests that write a file or raise an alert

(***************************************************************************)
(* JavaScript values.                                                      *)
(***************************************************************************)
Abs(i) == IF i < 0 THEN -i ELSE i

\* F(e) with e evaluated once, however often F uses its parameter
Once(e, F(_)) == CHOOSE r \in {F(v) : v \in {e}} : TRUE

RECURSIVE Gcd(_, _)
Gcd(a, b) == IF b = 0 THEN a ELSE Once(a % b, LAMBDA r : Gcd(b, r))

\* the number n/d (d # 0) in lowest terms with a positive denominator
Ratio(n, d) ==
    LET g == Gcd(Abs(n), Abs(d))
        s == IF d < 0 THEN -1 ELSE 1
    IN  [t |-> "number", n |-> (s * n) \div g, d |-> (s * d) \div g]

JNum(n, d) == Once(<<n, d>>, LAMBDA p : Ratio(p[1], p[2]))

Num(k) == JNum(k, 1)
NaN == [t |-> "NaN"]
JStr(s) == [t |-> "string", s |-> s]
JNull == [t |-> "null"]
JUndefined == [t |-> "undefined"]

Add(a, b) == Once(<<a, b>>, LAMBDA p : Ratio(p[1].n * p[2].d + p[2].n * p[1].d, p[1].d * p[2].d))
Mul(a, b) == Once(<<a, b>>, LAMBDA p : Ratio(p[1].n * p[2].n, p[1].d * p[2].d))
Div(a, b) == Once(<<a, b>>, LAMBDA p : Ratio(p[1].n * p[2].d, p[1].d * p[2].n))

\* ToBoolean: "", 0, NaN, null and undefined are falsy
Truthy(x) ==
    CASE x.t = "string" -> x.s # <<>>
      [] x.t = "number" -> x.n # 0
      [] OTHER -> FALSE

Digits == <<"0", "1", "2", "3", "4", "5", "6", "7", "8", "9">>

IsDigit(c) == \E i \in 1..10 : Digits[i] = c

DigitVal(c) == (CHOOSE i \in 1..10 : Digits[i] = c) - 1

RECURSIVE Pow10(_)
Pow10(k) == IF k = 0 THEN 1 ELSE 10 * Pow10(k - 1)

\* s without its last element
Front(s) == Once(s, LAMBDA q : SubSeq(q, 1, Len(q) - 1))

Last(s) == Once(s, LAMBDA q : q[Len(q)])

RECURSIVE DigitsVal(_)
DigitsVal(s) ==
    IF s = <<>> THEN 0 ELSE 10 * DigitsVal(Front(s)) + DigitVal(Last(s))

RECURSIVE TrimStart(_)
TrimStart(s) == IF s # <<>> /\ s[1] = " " THEN TrimStart(Tail(s)) ELSE s

RECURSIVE TrimEnd(_)
TrimEnd(s) ==
    Once(s, LAMBDA q : IF q # <<>> /\ q[Len(q)] = " " THEN TrimEnd(Front(q)) ELSE q)

Trim(s) == TrimEnd(TrimStart(s))

\* Number(string): blank text is 0, [-]digits[.digits] is that decimal,
\* anything else is NaN (exponents, hex and "Infinity" are not in the inputs)
DecimalLiteral(neg, body) ==
    LET dots == {i \in 1..Len(body) : body[i] = "."}
        dot  == IF dots = {} THEN Len(body) + 1 ELSE CHOOSE i \in dots : TRUE
        int  == SubSeq(body, 1, dot - 1)
        frac == SubSeq(body, dot + 1, Len(body))
        ok   == /\ Cardinality(dots) <= 1
                /\ Len(int) + Len(frac) > 0
                /\ \A i \in 1..Len(body) : i = dot \/ IsDigit(body[i])
        mag  == DigitsVal(int \o frac)
    IN  IF ~ok THEN NaN
        ELSE JNum(IF neg THEN -mag ELSE mag, Pow10(Len(frac)))

StringToNumber(str) ==
    Once(Trim(str), LAMBDA s :
        IF s = <<>> THEN JNum(0, 1)
        ELSE IF s[1] = "-" THEN Once(Tail(s), LAMBDA body : DecimalLiteral(TRUE, body))
        ELSE DecimalLiteral(FALSE, s))

\* Number(x)
Number(x) ==
    Once(x, LAMBDA v :
        CASE v.t = "number" -> v
          [] v.t = "string" -> StringToNumber(v.s)
          [] v.t = "null" -> JNum(0, 1)
          [] OTHER -> NaN)

NumberIsFinite(x) == x.t = "number"

asNumber(x) ==
    Once(Number(x), LAMBDA n : IF NumberIsFinite(n) THEN n ELSE NaN)

\* Math.round: the integer nearest to x, a tie going to the larger one
MathRound(x) == Once(x, LAMBDA v : JNum((2 * v.n + v.d) \div (2 * v.d), 1))

MathPow10(digits) == JNum(Pow10(digits), 1)

\* round with a tie going away from zero
round_tiesAwayFromZero(value, digits) ==
    Once(asNumber(value), LAMBDA n :
        IF ~NumberIsFinite(n) THEN JStr(<<>>)
        ELSE Once(Mul(n, MathPow10(digits)), LAMBDA scaled :
                Div(IF scaled.n < 0
                    THEN JNum(-((2 * (-scaled.n) + scaled.d) \div (2 * scaled.d)), 1)
                    ELSE MathRound(scaled),
                    MathPow10(digits))))

round(value, digits) ==
    Once(asNumber(value), LAMBDA n :
        IF ~NumberIsFinite(n) THEN JStr(<<>>)
        ELSE Once(MathPow10(digits), LAMBDA factor :
                Div(MathRound(Mul(n, factor)), factor)))

(***************************************************************************)
(* Strings: template literals, String.prototype.localeCompare.             *)
(***************************************************************************)
\* the characters of the inputs in collation order: blank, punctuation,
\* symbols, digits, then letters with the lower case first
Letters ==
    <<"a", "A", "b", "B", "c", "C", "d", "D", "e", "E", "l", "L", "m", "M",
      "n", "N", "o", "O", "p", "P", "r", "R", "s", "S", "t", "T", "u", "U">>

Collation == <<" ", "-", ".", "/", ">", "|">> \o Digits \o Letters

Rank(c) == CHOOSE i \in 1..Len(Collation) : Collation[i] = c

RECURSIVE localeCompare(_, _)
localeCompare(a, b) ==
    IF a = <<>> THEN (IF b = <<>> THEN 0 ELSE -1)
    ELSE IF b = <<>> THEN 1
    ELSE IF Rank(a[1]) < Rank(b[1]) THEN -1
    ELSE IF Rank(a[1]) > Rank(b[1]) THEN 1
    ELSE localeCompare(Tail(a), Tail(b))

\* `${DATE}||${ALLOTMENT}||${PASTURE}||${KA}`
compositeKey(row) ==
    Once(row, LAMBDA r :
        r.DATE \o <<"|", "|">> \o r.ALLOTMENT \o <<"|", "|">>
            \o r.PASTURE \o <<"|", "|">> \o r.KA)

(***************************************************************************)
(* normalizeDate, parseAncestry, extractKA                                 *)
(***************************************************************************)
RECURSIVE NatToString(_)
NatToString(k) ==
    IF k < 10 THEN <<Digits[k + 1]>>
    ELSE Append(NatToString(k \div 10), Digits[(k % 10) + 1])

padStart2(s) == IF Len(s) < 2 THEN <<"0">> \o s ELSE s

\* a Date object is [t |-> "date", valid, year, month (getMonth), date]
normalizeDate(value) ==
    CASE value.t = "date" /\ value.valid ->
            NatToString(value.year) \o <<"-">> \o padStart2(NatToString(value.month + 1))
                \o <<"-">> \o padStart2(NatToString(value.date))
      [] value.t = "string" -> value.s
      [] OTHER -> <<>>

\* String(x) of a string or a non-negative integer
StringOf(x) == IF x.t = "string" THEN x.s ELSE NatToString(x.n)

\* String.prototype.split on a one-character separator
RECURSIVE Split(_, _)
Split(str, sep) ==
    Once(str, LAMBDA s :
        Once({i \in 1..Len(s) : s[i] = sep}, LAMBDA at :
            IF at = {} THEN <<s>>
            ELSE Once(CHOOSE j \in at : \A k \in at : j <= k, LAMBDA i :
                    <<SubSeq(s, 1, i - 1)>> \o Split(SubSeq(s, i + 1, Len(s)), sep))))

SameLetter(c, e) ==
    c = e \/ \E i \in 1..(Len(Letters) \div 2) : {c, e} = {Letters[2 * i - 1], Letters[2 * i]}

\* s.replace(/\s+word$/i, ""): the word at the end and the blanks before it
dropTrailingWord(str, word) ==
    Once(str, LAMBDA s :
        LET start == Len(s) - Len(word)
            ends  == /\ start >= 1
                     /\ \A i \in 1..Len(word) : SameLetter(s[start + i], word[i])
                     /\ s[start] = " "
        IN  IF ends THEN TrimEnd(SubSeq(s, 1, start)) ELSE s)

parseAncestry(ancestry) ==
    IF ~Truthy(ancestry) THEN [allotment |-> <<>>, pasture |-> <<>>]
    ELSE Once(Split(StringOf(ancestry), ">"), LAMBDA parts :
            LET allotmentRaw == Trim(parts[1])
                pastureRaw == IF Len(parts) >= 2 THEN Trim(parts[2]) ELSE <<>>
            IN  [allotment |->
                    Trim(dropTrailingWord(allotmentRaw,
                           <<"A", "l", "l", "o", "t", "m", "e", "n", "t">>)),
                 pasture |->
                    Trim(dropTrailingWord(pastureRaw,
                           <<"P", "a", "s", "t", "u", "r", "e">>))])

IsLetter(c) == \E i \in 1..Len(Letters) : Letters[i] = c

\* String(siteId).match(/[A-Za-z].*$/): from the first letter to the end
extractKA(siteId) ==
    IF ~Truthy(siteId) THEN <<>>
    ELSE Once(StringOf(siteId), LAMBDA s :
            Once({i \in 1..Len(s) : IsLetter(s[i])}, LAMBDA at :
                IF at = {} THEN <<>>
                ELSE SubSeq(s, CHOOSE i \in at : \A k \in at : i <= k, Len(s))))

(***************************************************************************)
(* makeProductionTemplateRows                                              *)
(***************************************************************************)
BAG_NUMBERS == <<1, 3, 5>>

LBS_PER_ACRE_FACTOR == JNum(557612, 10000)

templateRow(row, bag) ==
    [DATE |-> row.DATE, ALLOTMENT |-> row.ALLOTMENT, PASTURE |-> row.PASTURE,
     KA |-> row.KA, BAG |-> bag,
     GW |-> <<>>, DryWT |-> <<>>, MinusBAG |-> <<>>, NET_WT |-> <<>>]

\* a comparator that looks at PASTURE before ALLOTMENT
compareRows_pastureFirst(a, b) ==
    IF a.PASTURE # b.PASTURE THEN localeCompare(a.PASTURE, b.PASTURE)
    ELSE IF a.ALLOTMENT # b.ALLOTMENT THEN localeCompare(a.ALLOTMENT, b.ALLOTMENT)
    ELSE IF a.DATE # b.DATE THEN localeCompare(a.DATE, b.DATE)
    ELSE localeCompare(a.KA, b.KA)

\* the comparator handed to Array.prototype.sort by both row builders
compareRows(a, b) ==
    IF a.ALLOTMENT # b.ALLOTMENT THEN localeCompare(a.ALLOTMENT, b.ALLOTMENT)
    ELSE IF a.PASTURE # b.PASTURE THEN localeCompare(a.PASTURE, b.PASTURE)
    ELSE IF a.DATE # b.DATE THEN localeCompare(a.DATE, b.DATE)
    ELSE localeCompare(a.KA, b.KA)

\* Array.prototype.sort is stable: x goes after the elements that do not
\* compare greater than it
RECURSIVE insertRow(_, _)
insertRow(before, x) ==
    Once(before, LAMBDA sorted :
        IF sorted = <<>> THEN <<x>>
        ELSE IF compareRows(Last(sorted), x) > 0
             THEN Append(insertRow(Front(sorted), x), Last(sorted))
             ELSE Append(sorted, x))

RECURSIVE sortRows(_)
sortRows(array) ==
    Once(array, LAMBDA rows :
        IF rows = <<>> THEN <<>>
        ELSE insertRow(sortRows(Front(rows)), Last(rows)))

\* the forEach of makeProductionTemplateRows over the rows not yet visited
RECURSIVE templateForEach(_, _, _)
templateForEach(rows, seen, templateRows) ==
    IF rows = <<>> THEN templateRows
    ELSE Once(<<rows[1], compositeKey(rows[1])>>, LAMBDA p :
            LET row == p[1]
                key == p[2]
            IN  IF row.DATE = <<>> \/ row.KA = <<>> \/ key \in seen
                THEN templateForEach(Tail(rows), seen, templateRows)
                ELSE templateForEach(Tail(rows), seen \cup {key},
                       templateRows \o [i \in 1..Len(BAG_NUMBERS) |->
                                           templateRow(row, BAG_NUMBERS[i])]))

makeProductionTemplateRows(cyRowsProcessed) ==
    sortRows(templateForEach(cyRowsProcessed, {}, <<>>))

(***************************************************************************)
(* computeSlopesByKA                                                       *)
(***************************************************************************)
\* the property key a truthy KA cell becomes
ToPropertyKey(x) == IF x.t = "string" THEN x.s ELSE NatToString(x.n)

NoEntries == [k \in {} |-> NaN]

\* the forEach of computeSlopesByKA over the rows not yet visited
RECURSIVE slopesForEach(_, _)
\* perKA after the callback has run on one row with numbers x and y
accumulate(perKA, KA, x, y) ==
    LET k   == ToPropertyKey(KA)
        old == IF k \in DOMAIN perKA THEN perKA[k]
               ELSE [sumXY |-> JNum(0, 1), sumX2 |-> JNum(0, 1), count |-> 0]
    IN  Once([sumXY |-> Add(old.sumXY, Mul(x, y)),
              sumX2 |-> Add(old.sumX2, Mul(x, x)),
              count |-> old.count + 1],
             LAMBDA new : [j \in DOMAIN perKA \cup {k} |-> IF j = k THEN new ELSE perKA[j]])

slopesForEach(rows, perKA) ==
    IF rows = <<>> THEN perKA
    ELSE Once(<<rows[1].KA, asNumber(rows[1].BAG), asNumber(rows[1].NET_WT), perKA>>,
              LAMBDA p :
            LET KA == p[1]
                x  == p[2]
                y  == p[3]
            IN  IF ~Truthy(KA) \/ ~NumberIsFinite(x) \/ ~NumberIsFinite(y)
                THEN slopesForEach(Tail(rows), p[4])
                ELSE Once(accumulate(p[4], KA, x, y),
                          LAMBDA next : slopesForEach(Tail(rows), next)))

computeSlopesByKA(rows) ==
    Once(slopesForEach(rows, NoEntries), LAMBDA perKA :
        [k \in {j \in DOMAIN perKA : perKA[j].sumX2.n > 0} |->
            Div(perKA[k].sumXY, perKA[k].sumX2)])

(***************************************************************************)
(* computeProductionFromCY                                                 *)
(***************************************************************************)
\* the first forEach of computeProductionFromCY: groups in insertion order
RECURSIVE groupsForEach(_, _)
\* groups after the callback has run on one row with a finite nValue
addToGroup(groups, row, nValue, key) ==
    IF \A i \in 1..Len(groups) : groups[i].key # key
    THEN Append(groups, [key |-> key, DATE |-> row.DATE,
                         ALLOTMENT |-> row.ALLOTMENT, PASTURE |-> row.PASTURE,
                         KA |-> row.KA, sumN |-> nValue, count |-> 1])
    ELSE [i \in 1..Len(groups) |->
            IF groups[i].key = key
            THEN [groups[i] EXCEPT !.sumN = Add(@, nValue), !.count = @ + 1]
            ELSE groups[i]]

groupsForEach(rows, groups) ==
    IF rows = <<>> THEN groups
    ELSE Once(<<rows[1], asNumber(rows[1].nValue), compositeKey(rows[1]), groups>>,
              LAMBDA p :
            LET row    == p[1]
                nValue == p[2]
            IN  IF row.KA = <<>> \/ row.DATE = <<>> \/ ~NumberIsFinite(nValue)
                THEN groupsForEach(Tail(rows), p[4])
                ELSE Once(addToGroup(p[4], row, nValue, p[3]),
                          LAMBDA next : groupsForEach(Tail(rows), next)))

productionRow(g, slope) ==
    Once(Div(g.sumN, JNum(g.count, 1)), LAMBDA avgN :
        LET productionLbsAcre == Mul(Mul(slope, avgN), LBS_PER_ACRE_FACTOR)
        IN  [DATE |-> g.DATE, ALLOTMENT |-> g.ALLOTMENT, PASTURE |-> g.PASTURE,
             KA |-> g.KA,
             avg_nValue |-> round(avgN, 3),
             slope_g_per_bag |-> round(slope, 4),
             Production |-> round(productionLbsAcre, 2)])

\* slopes[g.KA] is a finite number
hasSlope(slopes, KA) == KA \in DOMAIN slopes /\ NumberIsFinite(slopes[KA])

\* the second forEach: one output row per group whose unit has a slope
RECURSIVE outRowsForEach(_, _)
outRowsForEach(groups, slopes) ==
    IF groups = <<>> THEN <<>>
    ELSE Once(groups[1], LAMBDA g :
            IF hasSlope(slopes, g.KA)
            THEN <<productionRow(g, slopes[g.KA])>> \o outRowsForEach(Tail(groups), slopes)
            ELSE outRowsForEach(Tail(groups), slopes))

\* the second forEach: the Set of the units without a slope, in insertion order
RECURSIVE missingForEach(_, _, _)
missingForEach(groups, slopes, missingKAs) ==
    IF groups = <<>> THEN missingKAs
    ELSE Once(<<groups[1], missingKAs>>, LAMBDA p :
            LET g == p[1]
                known == \E i \in 1..Len(p[2]) : p[2][i] = g.KA
            IN  IF hasSlope(slopes, g.KA) \/ known
                THEN missingForEach(Tail(groups), slopes, p[2])
                ELSE missingForEach(Tail(groups), slopes, Append(p[2], g.KA)))

computeProductionFromCY(cyRowsProcessed, rows) ==
    Once(<<computeSlopesByKA(rows), groupsForEach(cyRowsProcessed, <<>>)>>, LAMBDA p :
        LET slopes == p[1]
            groups == p[2]
        IN  [rows |-> sortRows(outRowsForEach(groups, slopes)),
             missingKAs |-> missingForEach(groups, slopes, <<>>),
             slopes |-> slopes])

(***************************************************************************)
(* The session before anything is uploaded.                                *)
(***************************************************************************)
Status(text, n, kas) == [text |-> text, n |-> n, kas |-> kas]

Idle == Status("", 0, <<>>)

AppInit ==
    /\ cyRows = <<>>
    /\ prodRows = <<>>
    /\ status = Idle
    /\ calls = <<>>
    /\ files = <<>>
    /\ alerts = <<>>

(***************************************************************************)
(* The files a user can pick.  A file is readable or not (readExcelFile    *)
(* rejects); a readable one holds a workbook: its sheets in order.         *)
(***************************************************************************)
rawRow(Date, Ancestry, SiteID, nValue) ==
    [Date |-> Date, Ancestry |-> Ancestry, SiteID |-> SiteID, nValue |-> nValue]

sheetRow(KA, DATE, BAG, NET_WT) ==
    [KA |-> KA, DATE |-> DATE, BAG |-> BAG, NET_WT |-> NET_WT]

File(name, readable, Sheets) == [name |-> name, readable |-> readable, Sheets |-> Sheets]

Sheet(name, rows) == [name |-> name, rows |-> rows]

Sept30 == JStr(<<"2", "0", "2", "5", "-", "0", "9", "-", "3", "0">>)

TurkeyCreek ==
    JStr(<<"T", " ", "A", "l", "l", "o", "t", "m", "e", "n", "t", " ", ">", " ",
           "C", " ", "P", "a", "s", "t", "u", "r", "e">>)

RawFiles ==
    [ c3 |-> File("c3.xlsx", TRUE,
                <<Sheet("Comparative Yield",
                        <<rawRow(Sept30, TurkeyCreek, JStr(<<"0", "1", "-", "C", "3">>), Num(2))>>)>>),
      d4 |-> File("d4.xlsx", TRUE,
                <<Sheet("Notes", <<>>),
                  Sheet("Comparative Yield",
                        <<rawRow(Sept30, TurkeyCreek, JStr(<<"0", "2", "-", "D", "4">>), Num(4))>>)>>),
      inert |-> File("inert.xlsx", TRUE,
                <<Sheet("Comparative Yield",
                        <<rawRow(Sept30, TurkeyCreek, JStr(<<"0", "1", "1", "2">>), Num(2)),
                          rawRow(JNull, TurkeyCreek, JStr(<<"0", "1", "-", "C", "3">>), Num(2))>>)>>),
      nosheet |-> File("nosheet.xlsx", TRUE,
                <<Sheet("Sheet1",
                        <<rawRow(Sept30, TurkeyCreek, JStr(<<"0", "9", "-", "E", "5">>), Num(2))>>)>>),
      corrupt |-> File("corrupt.xlsx", FALSE, <<>>) ]

ProdFiles ==
    [ c3 |-> File("c3prod.xlsx", TRUE,
                <<Sheet("ProductionTemplate",
                        <<sheetRow(JStr(<<"C", "3">>), Sept30, Num(1), Num(10)),
                          sheetRow(JStr(<<"C", "3">>), Sept30, Num(3), Num(30))>>)>>),
      e5 |-> File("e5prod.xlsx", TRUE,
                <<Sheet("ProductionTemplate",
                        <<sheetRow(JStr(<<"E", "5">>), Sept30, Num(1), JNull)>>)>>),
      corrupt |-> File("corrupt.xlsx", FALSE, <<>>) ]

\* the selections of the RAW file input
RawBatches ==
    { <<RawFiles.c3>>, <<RawFiles.inert>>, <<RawFiles.nosheet>>,
      <<RawFiles.c3, RawFiles.nosheet, RawFiles.d4>>,
      <<RawFiles.c3, RawFiles.corrupt, RawFiles.d4>> }

\* the selections of the production file input
ProdBatches ==
    { <<ProdFiles.c3>>, <<ProdFiles.e5>>,
      <<ProdFiles.e5, ProdFiles.corrupt, ProdFiles.c3>> }

(***************************************************************************)
(* handleUploadRaw                                                         *)
(***************************************************************************)
\* wb.Sheets[name]: the sheets of that name (none: undefined)
sheetsNamed(wb, name) == {i \in 1..Len(wb) : wb[i].name = name}

\* the row pushed onto allCY for one row of the Comparative Yield sheet
processedCYRow(row) ==
    [Date |-> row.Date, Ancestry |-> row.Ancestry, SiteID |-> row.SiteID,
     nValue |-> row.nValue,
     DATE |-> normalizeDate(row.Date),
     ALLOTMENT |-> parseAncestry(row.Ancestry).allotment,
     PASTURE |-> parseAncestry(row.Ancestry).pasture,
     KA |-> extractKA(row.SiteID)]

\* a loop turn that reads the first sheet when none is named Comparative Yield
rawLoopBody_firstSheetFallback(allCY, wb) ==
    LET cySheet == sheetsNamed(wb, "Comparative Yield")
        cyData == wb[IF cySheet = {} THEN 1 ELSE CHOOSE i \in cySheet : TRUE].rows
    IN  allCY \o [i \in 1..Len(cyData) |-> processedCYRow(cyData[i])]

\* one turn of the loop of handleUploadRaw once the file is read: allCY after it
rawLoopBody(allCY, wb) ==
    LET cySheet == sheetsNamed(wb, "Comparative Yield")
    IN  IF cySheet = {} THEN allCY
        ELSE LET cyData == wb[CHOOSE i \in cySheet : TRUE].rows
             IN  allCY \o [i \in 1..Len(cyData) |-> processedCYRow(cyData[i])]

Call(handler, batch, captured) ==
    [handler |-> handler, files |-> batch, next |-> 1, captured |-> captured,
     all |-> captured, pc |-> "await"]

\* the change event of the RAW input, up to the first await
HandleUploadRaw(batch) ==
    /\ Len(calls) < MaxCalls
    /\ Len(batch) > 0
    /\ status' = Status("Reading RAW export file(s)...", 0, <<>>)
    /\ calls' = Append(calls, Call("handleUploadRaw", batch, cyRows))
    /\ UNCHANGED <<cyRows, prodRows, files, alerts, fn, args, ret>>

\* a catch clause that commits the rows collected before the failure
RawReadFails_commitsCollected(c) ==
    /\ calls[c].handler = "handleUploadRaw"
    /\ calls[c].pc = "await"
    /\ ~calls[c].files[calls[c].next].readable
    /\ status' = Status("Error reading RAW files. Check console for details.", 0, <<>>)
    /\ calls' = [calls EXCEPT ![c].pc = "failed"]
    /\ cyRows' = calls[c].all
    /\ UNCHANGED <<prodRows, files, alerts, fn, args, ret>>

\* readExcelFile rejects: the catch clause of handleUploadRaw
RawReadFails(c) ==
    /\ calls[c].handler = "handleUploadRaw"
    /\ calls[c].pc = "await"
    /\ ~calls[c].files[calls[c].next].readable
    /\ status' = Status("Error reading RAW files. Check console for details.", 0, <<>>)
    /\ calls' = [calls EXCEPT ![c].pc = "failed"]
    /\ UNCHANGED <<cyRows, prodRows, files, alerts, fn, args, ret>>

\* readExcelFile resolves: the rest of the loop turn, then the next await or,
\* after the last file, setCyRows and setStatus
RawReadResolves(c) ==
    /\ calls[c].handler = "handleUploadRaw"
    /\ calls[c].pc = "await"
    /\ calls[c].files[calls[c].next].readable
    /\ LET allCY == rawLoopBody(calls[c].all, calls[c].files[calls[c].next].Sheets)
       IN  IF calls[c].next < Len(calls[c].files)
           THEN /\ calls' = [calls EXCEPT ![c].all = allCY, ![c].next = @ + 1]
                /\ UNCHANGED <<cyRows, status>>
           ELSE /\ calls' = [calls EXCEPT ![c].all = allCY, ![c].pc = "done"]
                /\ cyRows' = allCY
                /\ status' = Status("Loaded ${n} Comparative Yield rows.", Len(allCY), <<>>)
    /\ UNCHANGED <<prodRows, files, alerts, fn, args, ret>>

(***************************************************************************)
(* handleUploadProduction                                                  *)
(***************************************************************************)
processedProdRow(row) ==
    [KA |-> row.KA, DATE |-> normalizeDate(row.DATE), BAG |-> row.BAG,
     NET_WT |-> row.NET_WT]

\* one turn of the loop of handleUploadProduction: the first sheet's rows
prodLoopBody(allProd, wb) ==
    LET rows == wb[1].rows
    IN  allProd \o [i \in 1..Len(rows) |-> processedProdRow(rows[i])]

HandleUploadProduction(batch) ==
    /\ Len(calls) < MaxCalls
    /\ Len(batch) > 0
    /\ status' = Status("Reading production (Bag / NET WT.) file(s)...", 0, <<>>)
    /\ calls' = Append(calls, Call("handleUploadProduction", batch, prodRows))
    /\ UNCHANGED <<cyRows, prodRows, files, alerts, fn, args, ret>>

ProdReadFails(c) ==
    /\ calls[c].handler = "handleUploadProduction"
    /\ calls[c].pc = "await"
    /\ ~calls[c].files[calls[c].next].readable
    /\ status' = Status("Error reading production files. Check console for details.", 0, <<>>)
    /\ calls' = [calls EXCEPT ![c].pc = "failed"]
    /\ UNCHANGED <<cyRows, prodRows, files, alerts, fn, args, ret>>

ProdReadResolves(c) ==
    /\ calls[c].handler = "handleUploadProduction"
    /\ calls[c].pc = "await"
    /\ calls[c].files[calls[c].next].readable
    /\ LET allProd == prodLoopBody(calls[c].all, calls[c].files[calls[c].next].Sheets)
       IN  IF calls[c].next < Len(calls[c].files)
           THEN /\ calls' = [calls EXCEPT ![c].all = allProd, ![c].next = @ + 1]
                /\ UNCHANGED <<prodRows, status>>
           ELSE /\ calls' = [calls EXCEPT ![c].all = allProd, ![c].pc = "done"]
                /\ prodRows' = allProd
                /\ status' = Status("Loaded ${n} production rows.", Len(allProd), <<>>)
    /\ UNCHANGED <<cyRows, files, alerts, fn, args, ret>>

(***************************************************************************)
(* downloadXlsxFromJson, handleExportTemplate, handleExportProduction      *)
(***************************************************************************)
\* a download that writes the workbook whatever the number of rows
downloadXlsxFromJson_noEmptyCheck(rows, filename, sheetName) ==
    /\ files' = Append(files, [filename |-> filename, sheetName |-> sheetName,
                               rows |-> rows])
    /\ alerts' = alerts

downloadXlsxFromJson(rows, filename, sheetName) ==
    IF Len(rows) = 0
    THEN /\ alerts' = Append(alerts, "Nothing to export.")
         /\ files' = files
    ELSE /\ files' = Append(files, [filename |-> filename, sheetName |-> sheetName,
                                    rows |-> rows])
         /\ alerts' = alerts

\* the click on the template button, which is disabled while cyRows is empty
HandleExportTemplate ==
    /\ Len(cyRows) > 0
    /\ Len(files) + Len(alerts) < MaxExports
    /\ IF Len(cyRows) = 0
       THEN /\ status' = Status("No Comparative Yield data loaded.", 0, <<>>)
            /\ UNCHANGED <<files, alerts>>
       ELSE LET templateRows == makeProductionTemplateRows(cyRows)
            IN  /\ downloadXlsxFromJson(templateRows, "CY_ProductionTemplate.xlsx",
                                        "ProductionTemplate")
                /\ status' = Status("Exported template with ${n} rows.",
                                    Len(templateRows), <<>>)
    /\ UNCHANGED <<cyRows, prodRows, calls, fn, args, ret>>

\* the click on the production button, which is disabled while cyRows or
\* prodRows is empty
HandleExportProduction ==
    /\ Len(cyRows) > 0 /\ Len(prodRows) > 0
    /\ Len(files) + Len(alerts) < MaxExports
    /\ IF Len(cyRows) = 0
       THEN /\ status' = Status("No Comparative Yield data loaded.", 0, <<>>)
            /\ UNCHANGED <<files, alerts>>
       ELSE IF Len(prodRows) = 0
       THEN /\ status' = Status("No production (Bag / NET WT.) data loaded.", 0, <<>>)
            /\ UNCHANGED <<files, alerts>>
       ELSE LET computed == computeProductionFromCY(cyRows, prodRows)
            IN  IF Len(computed.rows) = 0
                THEN /\ status' = Status("No Production rows could be computed. Check that KAs match between CY and production files.", 0, <<>>)
                     /\ UNCHANGED <<files, alerts>>
                ELSE /\ downloadXlsxFromJson(computed.rows, "CY_Production_lbs_per_acre.xlsx",
                                             "Production_lbs_acre")
                     /\ IF Len(computed.missingKAs) > 0
                        THEN status' = Status("Exported ${n} rows. Note: no calibration found for KAs: ${kas}",
                                              Len(computed.rows), computed.missingKAs)
                        ELSE status' = Status("Exported ${n} rows (Production lbs/acre).",
                                              Len(computed.rows), <<>>)
    /\ UNCHANGED <<cyRows, prodRows, calls, fn, args, ret>>

(***************************************************************************)
(* The session: uploads whose reads complete in any order, and exports.    *)
(***************************************************************************)
Init ==
    /\ AppInit
    /\ fn = <<>>
    /\ args = <<>>
    /\ ret = <<>>

Next ==
    \/ \E batch \in RawBatches : HandleUploadRaw(batch)
    \/ \E batch \in ProdBatches : HandleUploadProduction(batch)
    \/ \E c \in DOMAIN calls : RawReadFails(c)
    \/ \E c \in DOMAIN calls : RawReadResolves(c)
    \/ \E c \in DOMAIN calls : ProdReadFails(c)
    \/ \E c \in DOMAIN calls : ProdReadResolves(c)
    \/ HandleExportTemplate
    \/ HandleExportProduction

Spec == Init /\ [][Next]_vars

(***************************************************************************)
(* round applied to a value, and applied again to what it returned.        *)
(***************************************************************************)
RoundValues ==
    {JNum(m, d) : m \in (-MaxScaled)..MaxScaled, d \in {1, 2, 20, 200}}
        \cup {JStr(<<>>), JStr(<<"1", ".", "5">>), JStr(<<"n", "/", "a">>),
              JNull, JUndefined, NaN}

RoundInit ==
    /\ AppInit
    /\ fn = <<>>
    /\ args \in [value : RoundValues, digits : 0..MaxDigits]
    /\ ret = <<>>

CallRound ==
    /\ fn = <<>>
    /\ fn' = <<"round">>
    /\ ret' = <<round(args.value, args.digits)>>
    /\ UNCHANGED <<args, appVars>>

CallRoundAgain ==
    /\ fn = <<"round">>
    /\ fn' = <<"round", "round">>
    /\ ret' = Append(ret, round(ret[1], args.digits))
    /\ UNCHANGED <<args, appVars>>

RoundNext == CallRound \/ CallRoundAgain

SpecRound == RoundInit /\ [][RoundNext]_vars

(***************************************************************************)
(* computeSlopesByKA applied to a calibration collection.                  *)
(***************************************************************************)
RECURSIVE SeqsUpTo(_, _)
SeqsUpTo(S, k) ==
    IF k = 0 THEN {<<>>}
    ELSE Once(SeqsUpTo(S, k - 1), LAMBDA shorter :
            shorter \cup {Append(q, x) : q \in shorter, x \in S})

calRow(KA, BAG, NET_WT) ==
    [KA |-> KA, DATE |-> <<"1">>, BAG |-> BAG, NET_WT |-> NET_WT]

\* BAG # and NET WT. as numbers, numeric text, other text, empty text, null
CalRowSet ==
    { calRow(JStr(<<"u">>), Num(1), Num(10)),
      calRow(JStr(<<"u">>), Num(3), Num(30)),
      calRow(JStr(<<"u">>), Num(5), Num(50)),
      calRow(JStr(<<"u">>), JStr(<<"3">>), JStr(<<"2", ".", "5">>)),
      calRow(JStr(<<"u">>), Num(1), JStr(<<"n", "/", "a">>)),
      calRow(JStr(<<"v">>), JStr(<<"n", "/", "a">>), Num(10)),
      calRow(JStr(<<"v">>), Num(0), Num(10)),
      calRow(JStr(<<"v">>), JNull, Num(10)),
      calRow(JStr(<<"v">>), JStr(<<>>), Num(5)),
      calRow(JStr(<<"v">>), Num(1), JNull),
      calRow(JStr(<<"v">>), Num(3), JStr(<<>>)),
      calRow(JNull, Num(1), Num(10)) }

SlopesInit ==
    /\ AppInit
    /\ fn = <<>>
    /\ args \in [prodRows : SeqsUpTo(CalRowSet, MaxCalRows)]
    /\ ret = <<>>

CallComputeSlopes ==
    /\ fn = <<>>
    /\ fn' = <<"computeSlopesByKA">>
    /\ ret' = <<computeSlopesByKA(args.prodRows)>>
    /\ UNCHANGED <<args, appVars>>

SlopesNext == CallComputeSlopes

SpecSlopes == SlopesInit /\ [][SlopesNext]_vars

(***************************************************************************)
(* makeProductionTemplateRows and computeProductionFromCY applied to a     *)
(* yield collection (and a calibration collection).                        *)
(***************************************************************************)
yieldRow(DATE, ALLOTMENT, PASTURE, KA, nValue) ==
    [DATE |-> DATE, ALLOTMENT |-> ALLOTMENT, PASTURE |-> PASTURE, KA |-> KA,
     nValue |-> nValue]

YieldRowSet ==
    { yieldRow(<<"1">>, <<"a">>, <<"b">>, <<"c">>, Num(2)),
      yieldRow(<<"1">>, <<"a">>, <<"b">>, <<"c">>, Num(4)),
      yieldRow(<<"1">>, <<"a">>, <<"b">>, <<"c">>, JStr(<<"n", "/", "a">>)),
      yieldRow(<<"1">>, <<"a">>, <<"b">>, <<"d">>, Num(2)),
      yieldRow(<<"1">>, <<"a">>, <<"b">>, <<"d">>, JUndefined),
      yieldRow(<<"2">>, <<"a">>, <<"b">>, <<"c">>, Num(2)),
      yieldRow(<<"1">>, <<"a">>, <<"c">>, <<"c">>, Num(2)),
      yieldRow(<<"1">>, <<"b">>, <<"a">>, <<"c">>, JNull),
      yieldRow(<<"1">>, <<"a", "|">>, <<"b">>, <<"c">>, Num(2)),
      yieldRow(<<"1">>, <<"a">>, <<"|", "b">>, <<"c">>, Num(2)),
      yieldRow(<<>>, <<"a">>, <<"b">>, <<"c">>, Num(2)),
      yieldRow(<<"1">>, <<"a">>, <<"b">>, <<>>, Num(2)) }

JoinCalRowSet ==
    { calRow(JStr(<<"c">>), Num(1), Num(10)),
      calRow(JStr(<<"d">>), Num(3), Num(30)),
      calRow(JStr(<<"d">>), Num(0), Num(30)) }

CYInit ==
    /\ AppInit
    /\ fn = <<>>
    /\ args \in [cyRowsProcessed : SeqsUpTo(YieldRowSet, MaxYieldRows),
                 prodRows : SeqsUpTo(JoinCalRowSet, MaxJoinCalRows)]
    /\ ret = <<>>

CallTemplate ==
    /\ fn = <<>>
    /\ fn' = <<"makeProductionTemplateRows">>
    /\ ret' = <<makeProductionTemplateRows(args.cyRowsProcessed)>>
    /\ UNCHANGED <<args, appVars>>

CallProduction ==
    /\ fn = <<>>
    /\ fn' = <<"computeProductionFromCY">>
    /\ ret' = <<computeProductionFromCY(args.cyRowsProcessed, args.prodRows)>>
    /\ UNCHANGED <<args, appVars>>

CYNext == CallTemplate \/ CallProduction

SpecCY == CYInit /\ [][CYNext]_vars

(***************************************************************************)
(* Properties of round (SpecRound).                                        *)
(***************************************************************************)
\* what round was given, as a number, scaled by 10^digits: <<numerator, denominator>>
ScaledArg ==
    LET x == Number(args.value) IN <<x.n * Pow10(args.digits), x.d>>

\* the integer k with ret[1] = k / 10^digits, or no integer at all
ScaledRet ==
    IF ret[1].t = "number" /\ Pow10(args.digits) % ret[1].d = 0
    THEN {ret[1].n * (Pow10(args.digits) \div ret[1].d)}
    ELSE {}

SentinelForNonFinite ==
    ~NumberIsFinite(Number(args.value)) => ret[1] = JStr(<<>>)

\* ret[1] is the nearest multiple of 10^-digits, a tie going to +infinity
NearestTiesUp ==
    NumberIsFinite(Number(args.value)) =>
        \E k \in ScaledRet :
            /\ (2 * k - 1) * ScaledArg[2] <= 2 * ScaledArg[1]
            /\ 2 * ScaledArg[1] < (2 * k + 1) * ScaledArg[2]

\* ret[1] is the nearest multiple of 10^-digits, a tie going away from zero
NearestTiesAwayFromZero ==
    NumberIsFinite(Number(args.value)) =>
        \E k \in ScaledRet :
            IF ScaledArg[1] >= 0
            THEN /\ (2 * k - 1) * ScaledArg[2] <= 2 * ScaledArg[1]
                 /\ 2 * ScaledArg[1] < (2 * k + 1) * ScaledArg[2]
            ELSE /\ (2 * k - 1) * ScaledArg[2] < 2 * ScaledArg[1]
                 /\ 2 * ScaledArg[1] <= (2 * k + 1) * ScaledArg[2]

\* rounding a rounded number again with the same digits changes nothing
RoundedAgainIsSame ==
    (Len(ret) = 2 /\ NumberIsFinite(Number(args.value))) => ret[2] = ret[1]

\* C8 as stated: round returns the empty-string sentinel for a value that
\* does not coerce to a finite number, otherwise the value rounded to `digits`
\* decimals with ties half away from zero (a scaled -12.5 gives -13), and
\* rounding the result again returns the same result.
C8_RoundHalfAwayFromZero ==
    fn # <<>> => SentinelForNonFinite /\ NearestTiesAwayFromZero /\ RoundedAgainIsSame

\* C8 amended: as C8, but a tie goes toward +infinity as Math.round sends it:
\* a scaled 12.5 gives 13 and a scaled -12.5 gives -12.
C8_RoundTiesTowardPlusInfinity ==
    fn # <<>> => SentinelForNonFinite /\ NearestTiesUp /\ RoundedAgainIsSame

\* round(-12.5, 0) has returned -12 and was applied again
C8_NegativeTieRounded ==
    /\ fn = <<"round", "round">>
    /\ args = [value |-> JNum(-25, 2), digits |-> 0]
    /\ ret = <<JNum(-12, 1), JNum(-12, 1)>>

(***************************************************************************)
(* Properties of computeSlopesByKA (SpecSlopes).                           *)
(***************************************************************************)
RECURSIVE SumOver(_, _)
SumOver(I, f) ==
    IF I = {} THEN JNum(0, 1)
    ELSE LET i == CHOOSE j \in I : TRUE IN Add(f[i], SumOver(I \ {i}, f))

\* a cell that holds a finite value: a number, or the text of one; empty
\* text, other text and null hold none
FiniteCell(c) ==
    \/ c.t = "number"
    \/ c.t = "string" /\ Trim(c.s) # <<>> /\ NumberIsFinite(Number(c))

\* the rows of unit u whose BAG # and NET WT. are both finite
EligibleRows(rows, u) ==
    {i \in 1..Len(rows) :
        /\ rows[i].KA = JStr(u)
        /\ FiniteCell(rows[i].BAG)
        /\ FiniteCell(rows[i].NET_WT)}

UnitsOf(rows) ==
    {rows[i].KA.s : i \in {j \in 1..Len(rows) : rows[j].KA.t = "string"}}

FitThroughOrigin(rows, u) ==
    LET I == EligibleRows(rows, u)
        x == [i \in I |-> Number(rows[i].BAG)]
        y == [i \in I |-> Number(rows[i].NET_WT)]
    IN  Div(SumOver(I, [i \in I |-> Mul(x[i], y[i])]),
            SumOver(I, [i \in I |-> Mul(x[i], x[i])]))

ExactLine ==
    <<calRow(JStr(<<"u">>), Num(1), Num(10)),
      calRow(JStr(<<"u">>), Num(3), Num(30)),
      calRow(JStr(<<"u">>), Num(5), Num(50))>>

\* C5: computeSlopesByKA has an entry for a unit exactly when the unit has a
\* row whose BAG # and NET WT. are both finite, with non-zero BAG #; the
\* entry is sumXY / sumX2 over the unit's rows with both finite, where a
\* null, empty or non-numeric cell is not finite; a unit without such a row
\* has no entry (not 0, not NaN); rows (1,10), (3,30), (5,50) give slope 10.
C5_SlopesAreFitsOverFiniteRows ==
    fn = <<"computeSlopesByKA">> =>
        LET rows == args.prodRows
            slopes == ret[1]
        IN  /\ DOMAIN slopes =
                 {u \in UnitsOf(rows) :
                     \E i \in EligibleRows(rows, u) : Number(rows[i].BAG).n # 0}
            /\ \A u \in DOMAIN slopes \cap UnitsOf(rows) :
                 EligibleRows(rows, u) # {} => slopes[u] = FitThroughOrigin(rows, u)
            /\ rows = ExactLine => slopes = [u \in {<<"u">>} |-> Num(10)]

(***************************************************************************)
(* Properties of the row builders (SpecCY).                                *)
(***************************************************************************)
\* a sorts before b in string order: at the first difference
StrLess(a, b) ==
    \E k \in 1..(Len(b)) :
        /\ k <= Len(a) + 1
        /\ \A j \in 1..(k - 1) : a[j] = b[j]
        /\ (k = Len(a) + 1 \/ Rank(a[k]) < Rank(b[k]))

SortKey(row) == <<row.ALLOTMENT, row.PASTURE, row.DATE, row.KA>>

\* a does not sort after b by ALLOTMENT, then PASTURE, then DATE, then KA
KeyLessEq(a, b) ==
    \/ SortKey(a) = SortKey(b)
    \/ \E k \in 1..4 :
        /\ \A j \in 1..(k - 1) : SortKey(a)[j] = SortKey(b)[j]
        /\ StrLess(SortKey(a)[k], SortKey(b)[k])

Sorted(rows) ==
    \A i, j \in 1..Len(rows) : i < j => KeyLessEq(rows[i], rows[j])

\* C9: the rows returned by makeProductionTemplateRows and those returned by
\* computeProductionFromCY are sorted ascending by ALLOTMENT, then PASTURE,
\* then DATE, then KA, whatever the order of the input rows.
C9_OutputsSorted ==
    /\ fn = <<"makeProductionTemplateRows">> => Sorted(ret[1])
    /\ fn = <<"computeProductionFromCY">> => Sorted(ret[1].rows)

\* production rows of two groups were returned in the order opposite to the
\* order of the input rows
C9_ReorderedOutput ==
    /\ fn = <<"computeProductionFromCY">>
    /\ Len(args.cyRowsProcessed) = 2
    /\ Len(ret[1].rows) = 2
    /\ SortKey(ret[1].rows[1]) = SortKey(args.cyRowsProcessed[2])
    /\ SortKey(ret[1].rows[2]) = SortKey(args.cyRowsProcessed[1])
    /\ SortKey(ret[1].rows[1]) # SortKey(ret[1].rows[2])

GroupKey(row) == <<row.DATE, row.ALLOTMENT, row.PASTURE, row.KA>>

\* the distinct (DATE, ALLOTMENT, PASTURE, KA) of the rows with DATE and KA
UsableKeys(rows) ==
    {GroupKey(rows[i]) :
        i \in {j \in 1..Len(rows) : rows[j].DATE # <<>> /\ rows[j].KA # <<>>}}

RECURSIVE WithoutRepeats(_)
WithoutRepeats(rows) ==
    IF rows = <<>> THEN <<>>
    ELSE LET front == SubSeq(rows, 1, Len(rows) - 1)
             last  == rows[Len(rows)]
         IN  IF \E i \in 1..Len(front) : front[i] = last
             THEN WithoutRepeats(front)
             ELSE Append(WithoutRepeats(front), last)

\* C4: makeProductionTemplateRows returns exactly one row per (DATE,
\* ALLOTMENT, PASTURE, KA, BAG #) with the first four ranging over the
\* distinct keys of the input rows that have DATE and KA, and BAG # over
\* {1, 3, 5}; rows lacking DATE or KA contribute nothing; a repeated row
\* changes nothing.
C4_OneTemplateRowPerKeyAndBag ==
    fn = <<"makeProductionTemplateRows">> =>
        LET rows == args.cyRowsProcessed
            out  == ret[1]
        IN  /\ \A k \in UsableKeys(rows) : \A b \in {1, 3, 5} :
                 Cardinality({i \in 1..Len(out) :
                                 GroupKey(out[i]) = k /\ out[i].BAG = b}) = 1
            /\ \A i \in 1..Len(out) :
                 GroupKey(out[i]) \in UsableKeys(rows) /\ out[i].BAG \in {1, 3, 5}
            /\ makeProductionTemplateRows(WithoutRepeats(rows)) = out

\* C1: a unit code that occurs in a yield row with KA and DATE and has no
\* entry in the slope table is in missingKAs, and no production row carries it.
C1_UncalibratedUnitIsReported ==
    fn = <<"computeProductionFromCY">> =>
        \A i \in 1..Len(args.cyRowsProcessed) :
            LET row == args.cyRowsProcessed[i] IN
            (row.KA # <<>> /\ row.DATE # <<>> /\ row.KA \notin DOMAIN ret[1].slopes) =>
                /\ \E m \in 1..Len(ret[1].missingKAs) : ret[1].missingKAs[m] = row.KA
                /\ \A r \in 1..Len(ret[1].rows) : ret[1].rows[r].KA # row.KA

(***************************************************************************)
(* Properties of the session (Spec).                                       *)
(***************************************************************************)
IsPrefix(p, q) == Len(p) <= Len(q) /\ SubSeq(q, 1, Len(p)) = p

IsSuffix(p, q) == Len(p) <= Len(q) /\ SubSeq(q, Len(q) - Len(p) + 1, Len(q)) = p

HasYieldSheet(file) == \E i \in 1..Len(file.Sheets) : file.Sheets[i].name = "Comparative Yield"

\* the rows a readable RAW file contributes: those of its Comparative Yield sheet
CYRowsOfFile(file) ==
    IF HasYieldSheet(file)
    THEN LET sheet == file.Sheets[CHOOSE i \in 1..Len(file.Sheets) :
                                    file.Sheets[i].name = "Comparative Yield"]
         IN  [i \in 1..Len(sheet.rows) |-> processedCYRow(sheet.rows[i])]
    ELSE <<>>

\* the rows a readable production file contributes: those of its first sheet
ProdRowsOfFile(file) ==
    [i \in 1..Len(file.Sheets[1].rows) |-> processedProdRow(file.Sheets[1].rows[i])]

RowsOfFile(handler, file) ==
    IF handler = "handleUploadRaw" THEN CYRowsOfFile(file) ELSE ProdRowsOfFile(file)

\* the rows of the first k files of a batch, in file order
RECURSIVE RowsOfFiles(_, _, _)
RowsOfFiles(handler, batch, k) ==
    IF k = 0 THEN <<>>
    ELSE RowsOfFiles(handler, batch, k - 1) \o RowsOfFile(handler, batch[k])

AllReadable(batch) == \A i \in 1..Len(batch) : batch[i].readable

Collection(handler) == IF handler = "handleUploadRaw" THEN cyRows ELSE prodRows

ErrorStatus(handler) ==
    IF handler = "handleUploadRaw"
    THEN Status("Error reading RAW files. Check console for details.", 0, <<>>)
    ELSE Status("Error reading production files. Check console for details.", 0, <<>>)

LoadedStatus(handler, n) ==
    IF handler = "handleUploadRaw"
    THEN Status("Loaded ${n} Comparative Yield rows.", n, <<>>)
    ELSE Status("Loaded ${n} production rows.", n, <<>>)

\* call c is waiting for a file that cannot be read, and this step settles it
FailsNow(c) ==
    /\ calls[c].pc = "await"
    /\ ~calls[c].files[calls[c].next].readable
    /\ calls'[c] # calls[c]

\* a failed batch shows the error status and never runs again
FailureAborts(c) ==
    /\ FailsNow(c) => calls'[c].pc = "failed" /\ status' = ErrorStatus(calls[c].handler)
    /\ calls[c].pc = "failed" => calls'[c] = calls[c]

\* C2 as stated: when a file of a batch cannot be read, the files after it
\* are not processed, an error status is shown, and the rows of the files
\* of the batch processed before it remain in the accumulated collection.
C2_FailedBatchKeepsEarlierRows ==
    [][\A c \in DOMAIN calls :
          /\ FailureAborts(c)
          /\ FailsNow(c) =>
                IsSuffix(RowsOfFiles(calls[c].handler, calls[c].files, calls[c].next - 1),
                         Collection(calls[c].handler)')]_vars

\* C2 amended: when a file of a batch cannot be read, the files after it are
\* not processed, an error status is shown, and both accumulated collections
\* are left as they were: the rows of the files of the batch processed
\* before it are dropped with the batch.
C2_FailedBatchChangesNoCollection ==
    [][\A c \in DOMAIN calls :
          /\ FailureAborts(c)
          /\ FailsNow(c) => cyRows' = cyRows /\ prodRows' = prodRows]_vars

\* a RAW batch failed on its second file of three, after rows of its first
\* file were collected, and the collection holds none of them
C2_BatchFailedAfterAFile ==
    \E c \in DOMAIN calls :
        /\ calls[c].handler = "handleUploadRaw"
        /\ calls[c].pc = "failed"
        /\ calls[c].next = 2 /\ Len(calls[c].files) = 3
        /\ Len(calls[c].all) > Len(calls[c].captured)
        /\ cyRows = calls[c].captured
        /\ status = ErrorStatus("handleUploadRaw")

\* C3: every batch that finishes without error appends all its rows to the
\* collection as it is then, also when it was started while another batch
\* was waiting for a file; rows once accumulated are never removed; the
\* reported total is the length of the collection.
C3_IngestionLosesNothing ==
    [][/\ IsPrefix(cyRows, cyRows')
       /\ IsPrefix(prodRows, prodRows')
       /\ \A c \in DOMAIN calls :
            (calls[c].pc = "await" /\ calls'[c].pc = "done") =>
               /\ Collection(calls[c].handler)' =
                    Collection(calls[c].handler)
                        \o RowsOfFiles(calls[c].handler, calls[c].files, Len(calls[c].files))
               /\ status' = LoadedStatus(calls[c].handler,
                                         Len(Collection(calls[c].handler)'))]_vars

\* C7: in a RAW batch whose files can all be read, a workbook without a
\* "Comparative Yield" sheet is skipped and does not fail the batch: the
\* batch ends with the rows of its other files appended in file order to the
\* collection it started from, and with the loaded-count status.
C7_MissingSheetIsSkipped ==
    [][\A c \in DOMAIN calls :
          (/\ calls[c].handler = "handleUploadRaw"
           /\ calls[c].pc = "await"
           /\ AllReadable(calls[c].files)
           /\ calls'[c] # calls[c]) =>
              /\ calls'[c].pc # "failed"
              /\ IF calls[c].next < Len(calls[c].files)
                 THEN calls'[c].pc = "await" /\ calls'[c].next = calls[c].next + 1
                 ELSE /\ calls'[c].pc = "done"
                      /\ cyRows' = calls[c].captured
                            \o RowsOfFiles("handleUploadRaw", calls[c].files,
                                           Len(calls[c].files))
                      /\ status' = LoadedStatus("handleUploadRaw", Len(cyRows'))]_vars

\* a batch of three files whose second has no "Comparative Yield" sheet has
\* finished, and the collection ends with the rows of the first and the third
C7_BatchWithSheetlessFileLoaded ==
    \E c \in DOMAIN calls :
        /\ calls[c].handler = "handleUploadRaw"
        /\ calls[c].pc = "done"
        /\ Len(calls[c].files) = 3
        /\ ~HasYieldSheet(calls[c].files[2])
        /\ cyRows = calls[c].captured
             \o CYRowsOfFile(calls[c].files[1]) \o CYRowsOfFile(calls[c].files[3])
        /\ Len(cyRows) = Len(calls[c].captured) + 2
        /\ status = LoadedStatus("handleUploadRaw", Len(cyRows))

NothingToExportTold ==
    \/ alerts' = Append(alerts, "Nothing to export.")
    \/ /\ alerts' = alerts
       /\ status'.text \in
            { "No Comparative Yield data loaded.",
              "No production (Bag / NET WT.) data loaded.",
              "No Production rows could be computed. Check that KAs match between CY and production files." }

\* an export request whose derived rows are `derived`: nothing is written
\* and the user is told when there are none, and what is written is them
ExportWritesOnlyRows(derived) ==
    /\ derived = <<>> => files' = files /\ NothingToExportTold
    /\ files' # files =>
          /\ derived # <<>>
          /\ Len(files') = Len(files) + 1
          /\ files'[Len(files')].rows = derived

\* C6: an export request (template or production) whose derived row
\* collection is empty writes no file and tells the user that there is
\* nothing to export (for production: that no rows could be computed); a
\* file is written only when the derived collection has a row.
C6_EmptyExportWritesNoFile ==
    [][/\ HandleExportTemplate =>
            ExportWritesOnlyRows(makeProductionTemplateRows(cyRows))
       /\ HandleExportProduction =>
            ExportWritesOnlyRows(computeProductionFromCY(cyRows, prodRows).rows)]_vars

\* a template export over loaded rows that all lack DATE or KA has raised
\* the alert and written nothing
C6_EmptyTemplateExportRefused ==
    /\ Len(cyRows) > 0
    /\ makeProductionTemplateRows(cyRows) = <<>>
    /\ alerts = <<"Nothing to export.">>
    /\ files = <<>>

ExportedTexts ==
    { "Exported template with ${n} rows.",
      "Exported ${n} rows. Note: no calibration found for KAs: ${kas}",
      "Exported ${n} rows (Production lbs/acre)." }

\* C10: an export request leaves a status that reports a successful export
\* of N rows only if that request wrote a file of N rows; a template export
\* over loaded rows that all lack DATE or KA does not end with such a status.
C10_ExportedStatusMeansFileWritten ==
    [][((HandleExportTemplate \/ HandleExportProduction)
            /\ status'.text \in ExportedTexts) =>
          /\ Len(files') = Len(files) + 1
          /\ Len(files'[Len(files')].rows) = status'.n]_vars

=============================================================================
